---- MODULE Spec2Model ----
(***************************************************************************)
(* mailer.py: one-shot SMTP mail sender.  main() parses three required     *)
(* arguments, resolves its configuration from the environment, reads the   *)
(* body file, builds an EmailMessage and transmits it over SMTP with       *)
(* STARTTLS or over SMTP_SSL; sys.exit(main()) turns the return value      *)
(* into the exit code.                                                     *)
(*                                                                         *)
(* Values the code only passes on (addresses, host, password) are strings. *)
(* Values whose characters the code inspects (SMTP_STARTTLS, SMTP_PORT,    *)
(* the body) are sequences of one-character strings.                       *)
(***************************************************************************)
EXTENDS Integers, Sequences, FiniteSets, TLC

VARIABLES
    pc,          \* position in main()
    argv,        \* command line: dict flag -> value
    environ,     \* os.environ: dict name -> value
    fs,          \* the file named by --body-file: [kind, data]
    args,        \* argparse namespace, its fields None before parse_args returns
    smtp_host, smtp_port, smtp_user, smtp_pass, smtp_from,
    starttls,    \* meaningful once CONFIG_RESOLVED is on the path
    body,        \* text read from the body file, once BODY_READ is on the path
    msg,         \* the EmailMessage, once MESSAGE_BUILT is on the path
    conn,        \* the socket of this process: "none", "open", "closed"
    opens,       \* sockets connected so far
    tls,         \* the socket is TLS-wrapped
    features,    \* EHLO reply on record: "unknown" (none), "yes" (250), "no"
    exc,         \* exception in flight, None if none
    log,         \* SMTP session steps performed, with their outcome
    delivered,   \* messages the server accepted
    exit_code,   \* exit status of the process, NoInt while it runs
    stderr,      \* prefix of what was printed to stderr
    env_read,    \* os.environ has been read
    file_opened, \* open() of the body file has been called
    path         \* the stages of section 4.1 visited so far

vars == <<pc, argv, environ, fs, args, smtp_host, smtp_port, smtp_user,
          smtp_pass, smtp_from, starttls, body, msg, conn, opens, tls,
          features, exc, log, delivered, exit_code, stderr, env_read,
          file_opened, path>>

\* Python's None, and the value of a string local not yet assigned
None == "None"

\* an integer not yet assigned (port, exit status)
NoInt == 0 - 1

-----------------------------------------------------------------------------
(* Text helpers *)

UpperCase == <<"A","B","C","D","E","F","G","H","I","J","K","L","M",
               "N","O","P","Q","R","S","T","U","V","W","X","Y","Z">>
LowerCase == <<"a","b","c","d","e","f","g","h","i","j","k","l","m",
               "n","o","p","q","r","s","t","u","v","w","x","y","z">>
Digits == <<"0","1","2","3","4","5","6","7","8","9">>

\* str.lower() on one character
LowerChar(c) ==
    IF \E i \in DOMAIN UpperCase : UpperCase[i] = c
    THEN LowerCase[CHOOSE i \in DOMAIN UpperCase : UpperCase[i] = c]
    ELSE c

\* str.lower()
Lower(s) == [i \in DOMAIN s |-> LowerChar(s[i])]

IsDigit(c) == \E i \in DOMAIN Digits : Digits[i] = c
DigitVal(c) == (CHOOSE i \in DOMAIN Digits : Digits[i] = c) - 1

\* int(s) succeeds (the inputs drawn carry no sign, blank or underscore)
IsIntLiteral(s) == s # <<>> /\ \A i \in DOMAIN s : IsDigit(s[i])

RECURSIVE IntOf(_)
IntOf(s) ==
    IF s = <<>> THEN 0
    ELSE 10 * IntOf(SubSeq(s, 1, Len(s) - 1)) + DigitVal(s[Len(s)])

LF == "\n"
CR == "\r"

\* bytes.splitlines(): a line ends at LF, CR or CR LF; no empty last line
RECURSIVE splitlines_from(_, _, _)
splitlines_from(s, i, cur) ==
    IF i > Len(s) THEN (IF cur = <<>> THEN <<>> ELSE <<cur>>)
    ELSE IF s[i] = LF THEN <<cur>> \o splitlines_from(s, i + 1, <<>>)
    ELSE IF s[i] = CR THEN
        <<cur>> \o splitlines_from(
            s, IF i < Len(s) /\ s[i + 1] = LF THEN i + 2 ELSE i + 1, <<>>)
    ELSE splitlines_from(s, i + 1, Append(cur, s[i]))

splitlines(s) == splitlines_from(s, 1, <<>>)

\* sep.join(lines)
RECURSIVE join(_, _)
join(sep, lines) ==
    IF lines = <<>> THEN <<>>
    ELSE IF Len(lines) = 1 THEN lines[1]
    ELSE lines[1] \o sep \o join(sep, Tail(lines))

\* EmailMessage.set_content(body) for text: the payload is
\* b'\n'.join(lines) + b'\n' over the body's lines
set_content(s) == join(<<LF>>, splitlines(s)) \o <<LF>>

-----------------------------------------------------------------------------
(* Inputs *)

MaxBodyLen == 1

BodyChars == {"a", LF, CR}

RECURSIVE SeqsUpTo(_, _)
SeqsUpTo(S, n) ==
    IF n = 0 THEN {<<>>}
    ELSE LET shorter == SeqsUpTo(S, n - 1)
         IN shorter \cup {Append(s, c) : s \in {t \in shorter : Len(t) = n - 1}, c \in S}

\* what open(args.body_file, 'r').read() meets
Files ==
    {[kind |-> k, data |-> <<>>] : k \in {"missing", "denied", "undecodable"}}
    \cup {[kind |-> "text", data |-> d] : d \in SeqsUpTo(BodyChars, MaxBodyLen)}

Flags == {"to", "subject", "body_file"}

FlagValues(k) ==
    CASE k = "to" -> {"a@b.com"}
      [] k = "subject" -> {"Disk full"}
      [] k = "body_file" -> {"/tmp/b.txt"}

\* command lines made of the three documented flags, each given or omitted
Argvs ==
    UNION {{f \in [S -> {"a@b.com", "Disk full", "/tmp/b.txt"}] :
               \A k \in S : f[k] \in FlagValues(k)} : S \in SUBSET Flags}

s_true == <<"t","r","u","e">>

\* each option is the set holding the variable's value, empty when unset
HostOpts == {{}, {"localhost"}}
PortOpts == {{}, {<<"2","5","2","5">>}, {<<"a","b","c">>}}
UserOpts == {{}, {""}, {"user@example.com"}}
PassOpts == {{}, {"secret"}}
FromOpts == {{}, {""}, {"alerts@example.com"}}
StarttlsOpts ==
    {{}, {s_true}, {<<"T","R","U","E">>}, {<<"1">>}, {<<"Y","e","s">>},
     {<<"f","a","l","s","e">>}, {<<"F","a","l","s","e">>}, {<<"0">>}}

Only(s) == CHOOSE v \in s : TRUE

Environ(h, p, u, pw, f, st) ==
    LET opt == [k \in {"SMTP_HOST", "SMTP_PORT", "SMTP_USER", "SMTP_PASS",
                       "SMTP_FROM", "SMTP_STARTTLS"} |->
                   CASE k = "SMTP_HOST" -> h
                     [] k = "SMTP_PORT" -> p
                     [] k = "SMTP_USER" -> u
                     [] k = "SMTP_PASS" -> pw
                     [] k = "SMTP_FROM" -> f
                     [] k = "SMTP_STARTTLS" -> st]
    IN [k \in {n \in DOMAIN opt : opt[n] # {}} |-> Only(opt[k])]

\* os.environ.get(name, default)
environ_get(name, default) ==
    IF name \in DOMAIN environ THEN environ[name] ELSE default

\* value argparse stores for a flag: None when the flag is absent
ArgValue(k) == IF k \in DOMAIN argv THEN argv[k] ELSE None

-----------------------------------------------------------------------------
(* State after interpreter start-up *)

Init ==
    /\ pc = "parse_args"
    /\ argv \in Argvs
    /\ \E h \in HostOpts, p \in PortOpts, u \in UserOpts, pw \in PassOpts,
          f \in FromOpts, st \in StarttlsOpts :
          environ = Environ(h, p, u, pw, f, st)
    /\ fs \in Files
    /\ args = [k \in Flags |-> None]
    /\ smtp_host = None /\ smtp_port = NoInt /\ smtp_user = None
    /\ smtp_pass = None /\ smtp_from = None /\ starttls = FALSE
    /\ body = <<>>
    /\ msg = [From |-> None, To |-> None, Subject |-> None, content |-> <<>>]
    /\ conn = "none"
    /\ opens = 0
    /\ tls = FALSE
    /\ features = "unknown"
    /\ exc = None
    /\ log = <<>>
    /\ delivered = <<>>
    /\ exit_code = NoInt
    /\ stderr = ""
    /\ env_read = FALSE
    /\ file_opened = FALSE
    /\ path = <<"START">>

-----------------------------------------------------------------------------
(* main(), lines 14-39 *)

\* variant: --body-file declared without required=True
Required_BodyFileOptional == {"to", "subject"}

\* add_argument(..., required=True), lines 15-17
Required == {"to", "subject", "body_file"}

\* lines 14-18: parse_args() exits with status 2 when a required flag is missing
ParseArgs ==
    /\ pc = "parse_args"
    /\ IF Required \subseteq DOMAIN argv
       THEN /\ args' = [k \in Flags |-> ArgValue(k)]
            /\ pc' = "config"
            /\ path' = Append(path, "ARGS_PARSED")
            /\ UNCHANGED <<exit_code, stderr>>
       ELSE /\ stderr' = "usage:"
            /\ exit_code' = 2
            /\ pc' = "done"
            /\ path' = Append(path, "EXIT")
            /\ UNCHANGED args
    /\ UNCHANGED <<argv, environ, fs, smtp_host, smtp_port, smtp_user,
                   smtp_pass, smtp_from, starttls, body, msg, conn, opens,
                   tls, features, exc, log, delivered, env_read,
                   file_opened>>

\* line 24: os.environ.get('SMTP_FROM', smtp_user or 'monitor@example.com')
ResolveFrom(user) ==
    environ_get("SMTP_FROM", IF user # "" THEN user ELSE "monitor@example.com")

\* variant: the value compared without .lower()
ParseStarttls_NoLower(v) == v \in {<<"1">>, s_true, <<"y","e","s">>}

\* line 25: .lower() in ('1','true','yes')
ParseStarttls(v) == Lower(v) \in {<<"1">>, s_true, <<"y","e","s">>}

\* lines 20-25; int() raises ValueError outside every try block
ResolveConfig ==
    /\ pc = "config"
    /\ env_read' = TRUE
    /\ LET port == environ_get("SMTP_PORT", <<"5","8","7">>)
           user == environ_get("SMTP_USER", "")
       IN IF IsIntLiteral(port)
          THEN /\ smtp_host' = environ_get("SMTP_HOST", "smtp.gmail.com")
               /\ smtp_port' = IntOf(port)
               /\ smtp_user' = user
               /\ smtp_pass' = environ_get("SMTP_PASS", "")
               /\ smtp_from' = ResolveFrom(user)
               /\ starttls' = ParseStarttls(environ_get("SMTP_STARTTLS", s_true))
               /\ pc' = "read_body"
               /\ path' = Append(path, "CONFIG_RESOLVED")
               /\ UNCHANGED <<exit_code, stderr>>
          ELSE /\ smtp_host' = environ_get("SMTP_HOST", "smtp.gmail.com")
               /\ stderr' = "Traceback"
               /\ exit_code' = 1
               /\ pc' = "done"
               /\ path' = Append(path, "EXIT")
               /\ UNCHANGED <<smtp_port, smtp_user, smtp_pass, smtp_from,
                              starttls>>
    /\ UNCHANGED <<argv, environ, fs, args, body, msg, conn, opens, tls,
                   features, exc, log, delivered, file_opened>>

\* variant: a missing file reads as an empty body
ReadFails_MissingIsEmpty == args.body_file = None \/ fs.kind \in {"denied", "undecodable"}

\* lines 28-31: open() or read() raises; except Exception catches whatever it is
ReadFails == args.body_file = None \/ fs.kind # "text"

\* lines 28-33; return 3 is the exit status, by sys.exit(main()) of line 63
ReadBody ==
    /\ pc = "read_body"
    /\ file_opened' = TRUE
    /\ IF ~ReadFails
       THEN /\ body' = fs.data
            /\ pc' = "build"
            /\ path' = Append(path, "BODY_READ")
            /\ UNCHANGED <<stderr, exit_code>>
       ELSE /\ stderr' = "Error reading body file:"
            /\ exit_code' = 3
            /\ pc' = "done"
            /\ path' = path \o <<"BODY_READ_FAILED", "EXIT">>
            /\ UNCHANGED body
    /\ UNCHANGED <<argv, environ, fs, args, smtp_host, smtp_port, smtp_user,
                   smtp_pass, smtp_from, starttls, msg, conn, opens, tls,
                   features, exc, log, delivered, env_read>>

\* lines 35-39
BuildMessage ==
    /\ pc = "build"
    /\ msg' = [From |-> smtp_from, To |-> args.to, Subject |-> args.subject,
               content |-> set_content(body)]
    /\ pc' = "connect"
    /\ path' = Append(path, "MESSAGE_BUILT")
    /\ UNCHANGED <<argv, environ, fs, args, smtp_host, smtp_port, smtp_user,
                   smtp_pass, smtp_from, starttls, body, conn, opens, tls,
                   features, exc, log, delivered, exit_code, stderr,
                   env_read, file_opened>>

-----------------------------------------------------------------------------
(* The SMTP session, lines 41-58 *)

\* class the connection is made with, lines 44 and 52
SessionClass == IF starttls THEN "SMTP" ELSE "SMTP_SSL"

Entry(op, res) == [op |-> op, res |-> res, tls |-> tls]

\* an exception leaves the with block through __exit__
Raise(e) == exc' = e /\ pc' = "with_exit"

\* variant: a refused connection is tried a second time
AfterRefused_RetryOnce == IF log = <<>> THEN "connect" ELSE "except"

\* line 56: a constructor that raises leaves the try block for its handler
AfterRefused == "except"

\* lines 44 and 52: the constructor connects and reads the greeting;
\* SMTP_SSL wraps the socket before the greeting.  A constructor that fails
\* after connecting closes the socket itself and __exit__ never runs.
Connect ==
    /\ pc = "connect"
    /\ \E r \in {"ok", "refused", "aborted"} :
          /\ log' = Append(log, Entry(SessionClass, r))
          /\ CASE r = "ok" ->
                    /\ conn' = "open"
                    /\ opens' = opens + 1
                    /\ tls' = ~starttls
                    /\ pc' = IF starttls THEN "ehlo1" ELSE "login"
                    /\ UNCHANGED exc
               [] r = "refused" ->
                    /\ exc' = "ConnectionRefusedError"
                    /\ pc' = AfterRefused
                    /\ UNCHANGED <<conn, opens, tls>>
               [] r = "aborted" ->
                    /\ conn' = "closed"
                    /\ opens' = opens + 1
                    /\ exc' = IF starttls THEN "SMTPConnectError" ELSE "SSLError"
                    /\ pc' = "except"
                    /\ UNCHANGED tls
    /\ UNCHANGED <<argv, environ, fs, args, smtp_host, smtp_port, smtp_user,
                   smtp_pass, smtp_from, starttls, body, msg, features,
                   delivered, exit_code, stderr, env_read, file_opened,
                   path>>

\* server.ehlo(): a reply other than 250 is returned, not raised, and the
\* caller drops it; a lost connection is closed and raised
Ehlo(at, next) ==
    /\ pc = at
    /\ \E r \in {"250", "refused", "disconnected"} :
          /\ log' = Append(log, Entry("ehlo", r))
          /\ CASE r = "250" ->
                    /\ features' = "yes"
                    /\ pc' = next
                    /\ UNCHANGED <<conn, exc>>
               [] r = "refused" ->
                    /\ features' = "no"
                    /\ pc' = next
                    /\ UNCHANGED <<conn, exc>>
               [] r = "disconnected" ->
                    /\ features' = "no"
                    /\ conn' = "closed"
                    /\ Raise("SMTPServerDisconnected")
    /\ UNCHANGED <<argv, environ, fs, args, smtp_host, smtp_port, smtp_user,
                   smtp_pass, smtp_from, starttls, body, msg, opens, tls,
                   delivered, exit_code, stderr, env_read, file_opened,
                   path>>

\* variant: the session goes from the first EHLO straight to login
Ehlo1_SkipsUpgrade == Ehlo("ehlo1", "login")

\* line 45
Ehlo1 == Ehlo("ehlo1", "starttls")

\* line 46: starttls() raises unless the last EHLO listed the extension, the
\* server answers 220 and the handshake succeeds; it then forgets the EHLO
Starttls ==
    /\ pc = "starttls"
    /\ \E r \in IF features = "yes" THEN {"ok", "not_supported", "rejected"}
                ELSE {"not_supported"} :
          /\ log' = Append(log, Entry("starttls", r))
          /\ CASE r = "ok" ->
                    /\ tls' = TRUE
                    /\ features' = "unknown"
                    /\ pc' = "ehlo2"
                    /\ UNCHANGED exc
               [] r = "not_supported" ->
                    /\ Raise("SMTPNotSupportedError")
                    /\ UNCHANGED <<tls, features>>
               [] r = "rejected" ->
                    /\ Raise("SMTPResponseException")
                    /\ UNCHANGED <<tls, features>>
    /\ UNCHANGED <<argv, environ, fs, args, smtp_host, smtp_port, smtp_user,
                   smtp_pass, smtp_from, starttls, body, msg, conn, opens,
                   delivered, exit_code, stderr, env_read, file_opened,
                   path>>

\* line 47
Ehlo2 == Ehlo("ehlo2", "login")

\* variant: login attempted when either credential is set
NeedsLogin_UserOrPass == smtp_user # "" \/ smtp_pass # ""

\* lines 48 and 53: if smtp_user
NeedsLogin == smtp_user # ""

\* lines 48-49 and 53-54: login() greets first if no EHLO was sent yet and
\* raises when the EHLO reply on record lists no AUTH
Login ==
    /\ pc = "login"
    /\ IF NeedsLogin
       THEN \E r \in IF features = "no" THEN {"not_supported"}
                     ELSE {"ok", "rejected"} :
               /\ log' = Append(log, Entry("login", r))
               /\ CASE r = "ok" ->
                         /\ features' = "yes"
                         /\ pc' = "send"
                         /\ UNCHANGED exc
                    [] r = "not_supported" ->
                         /\ Raise("SMTPNotSupportedError")
                         /\ UNCHANGED features
                    [] r = "rejected" ->
                         /\ Raise("SMTPAuthenticationError")
                         /\ UNCHANGED features
       ELSE /\ pc' = "send"
            /\ UNCHANGED <<log, exc, features>>
    /\ UNCHANGED <<argv, environ, fs, args, smtp_host, smtp_port, smtp_user,
                   smtp_pass, smtp_from, starttls, body, msg, conn, opens, tls,
                   delivered, exit_code, stderr, env_read, file_opened,
                   path>>

\* what send_message(msg) can come to: the envelope sender is
\* getaddresses([msg['From']])[0][1], an IndexError on an empty From in the
\* libraries where getaddresses(['']) is the empty list
SendOutcomes ==
    {"ok", "rejected"} \cup (IF msg.From = "" THEN {"IndexError"} ELSE {})

\* lines 50 and 55
SendMessage ==
    /\ pc = "send"
    /\ \E r \in SendOutcomes :
          /\ log' = Append(log, Entry("send_message", r))
          /\ CASE r = "ok" ->
                    /\ delivered' = Append(delivered, msg)
                    /\ pc' = "with_exit"
                    /\ UNCHANGED exc
               [] r = "rejected" ->
                    /\ Raise("SMTPDataError")
                    /\ UNCHANGED delivered
               [] r = "IndexError" ->
                    /\ Raise("IndexError")
                    /\ UNCHANGED delivered
    /\ UNCHANGED <<argv, environ, fs, args, smtp_host, smtp_port, smtp_user,
                   smtp_pass, smtp_from, starttls, body, msg, conn, opens, tls,
                   features, exit_code, stderr, env_read, file_opened,
                   path>>

\* variant: close() called at the end of the block, without a with statement
SocketAfterExit_ClosedOnSuccessOnly(c) == IF exc = None THEN "closed" ELSE c

\* the with statement of lines 44 and 52: __exit__ closes the socket whether
\* or not an exception is in flight
SocketAfterExit(c) == "closed"

\* end of the with block, lines 44 and 52: SMTP.__exit__ sends QUIT, raises
\* on a reply other than 221, passes over a lost connection, and closes the
\* socket in every case
WithExit ==
    /\ pc = "with_exit"
    /\ IF conn = "open"
       THEN \E q \in {"221", "other", "disconnected"} :
               /\ log' = Append(log, Entry("quit", q))
               /\ exc' = IF q = "other" THEN "SMTPResponseException" ELSE exc
       ELSE UNCHANGED <<log, exc>>
    /\ conn' = SocketAfterExit(conn)
    /\ pc' = IF exc' = None THEN "return" ELSE "except"
    /\ UNCHANGED <<argv, environ, fs, args, smtp_host, smtp_port, smtp_user,
                   smtp_pass, smtp_from, starttls, body, msg, opens, tls,
                   features, delivered, exit_code, stderr, env_read,
                   file_opened, path>>

\* the errors of the session are all subclasses of Exception
ExceptionClasses ==
    {"ConnectionRefusedError", "SMTPConnectError", "SSLError",
     "SMTPServerDisconnected", "SMTPNotSupportedError",
     "SMTPResponseException", "SMTPAuthenticationError", "SMTPDataError",
     "IndexError"}

\* variant: except smtplib.SMTPException
Caught_SMTPExceptionOnly(e) ==
    e \in {"SMTPConnectError", "SMTPServerDisconnected", "SMTPNotSupportedError",
           "SMTPResponseException", "SMTPAuthenticationError", "SMTPDataError"}

\* line 56: except Exception
Caught(e) == e \in ExceptionClasses

\* lines 56-58; return 4 is the exit status, by sys.exit(main()) of line 63;
\* an error the clause does not catch ends the interpreter
ExceptHandler ==
    /\ pc = "except"
    /\ IF Caught(exc)
       THEN /\ stderr' = "SMTP send failed:"
            /\ exit_code' = 4
            /\ path' = path \o <<"SEND_FAILED", "EXIT">>
       ELSE /\ stderr' = "Traceback"
            /\ exit_code' = 1
            /\ path' = Append(path, "EXIT")
    /\ pc' = "done"
    /\ exc' = None
    /\ UNCHANGED <<argv, environ, fs, args, smtp_host, smtp_port, smtp_user,
                   smtp_pass, smtp_from, starttls, body, msg, conn, opens, tls,
                   features, log, delivered, env_read, file_opened>>

\* line 60; return 0 is the exit status, by sys.exit(main()) of line 63
Return0 ==
    /\ pc = "return"
    /\ exit_code' = 0
    /\ pc' = "done"
    /\ path' = path \o <<"SENT", "EXIT">>
    /\ UNCHANGED <<argv, environ, fs, args, smtp_host, smtp_port, smtp_user,
                   smtp_pass, smtp_from, starttls, body, msg, conn, opens, tls,
                   features, exc, log, delivered, stderr, env_read,
                   file_opened>>

Next ==
    \/ ParseArgs
    \/ ResolveConfig
    \/ ReadBody
    \/ BuildMessage
    \/ Connect
    \/ Ehlo1
    \/ Starttls
    \/ Ehlo2
    \/ Login
    \/ SendMessage
    \/ WithExit
    \/ ExceptHandler
    \/ Return0

Spec == Init /\ [][Next]_vars

\* the interpreter runs the program to its end
FairSpec == Spec /\ WF_vars(Next)

-----------------------------------------------------------------------------
(* Vocabulary of the properties *)

Done == pc = "done"

AllArgsGiven == {"to", "subject", "body_file"} \subseteq DOMAIN argv

PortIsInteger == IsIntLiteral(environ_get("SMTP_PORT", <<"5","8","7">>))

UserIsEmpty == "SMTP_USER" \notin DOMAIN environ \/ environ["SMTP_USER"] = ""

\* positions of the log where op was performed
Steps(op) == {i \in DOMAIN log : log[i].op = op}

Connects == Steps("SMTP") \cup Steps("SMTP_SSL")

Accepted == {"ok", "250", "221"}

\* steps of connect, EHLO, TLS upgrade, authentication and send that failed
FailedSteps == {i \in DOMAIN log : log[i].op # "quit" /\ log[i].res \notin Accepted}

\* failed steps other than an EHLO the server answered with a non-250 reply
RaisingSteps == {i \in FailedSteps : ~(log[i].op = "ehlo" /\ log[i].res = "refused")}

\* the server turned down nothing it was asked
ServerAcceptsAll ==
    /\ log # <<>>
    /\ \A i \in DOMAIN log : log[i].res \in Accepted \cup {"IndexError"}

\* the session steps without the closing QUIT
RECURSIVE OpsOf(_)
OpsOf(l) ==
    IF l = <<>> THEN <<>>
    ELSE (IF l[1].op = "quit" THEN <<>> ELSE <<l[1].op>>) \o OpsOf(Tail(l))

IsPrefix(a, b) == Len(a) <= Len(b) /\ a = SubSeq(b, 1, Len(a))

Consecutive == {<<path[i], path[i + 1]>> : i \in 1..(Len(path) - 1)}

\* the state machine of section 4.1
Section41 ==
    {<<"START", "ARGS_PARSED">>, <<"ARGS_PARSED", "CONFIG_RESOLVED">>,
     <<"CONFIG_RESOLVED", "BODY_READ">>, <<"CONFIG_RESOLVED", "BODY_READ_FAILED">>,
     <<"BODY_READ_FAILED", "EXIT">>, <<"BODY_READ", "MESSAGE_BUILT">>,
     <<"MESSAGE_BUILT", "SENT">>, <<"MESSAGE_BUILT", "SEND_FAILED">>,
     <<"SENT", "EXIT">>, <<"SEND_FAILED", "EXIT">>}

Visited(stage) == \E i \in DOMAIN path : path[i] = stage

-----------------------------------------------------------------------------
(* C1 *)

\* C1 as stated: a missing body file, with all three arguments given, ends
\* the process with exit code 3 and "Error reading body file:" on stderr,
\* whatever the SMTP_* variables are.
C1_MissingFileExits3 ==
    (Done /\ AllArgsGiven /\ fs.kind = "missing")
        => (exit_code = 3 /\ stderr = "Error reading body file:")

\* C1 amended: a missing body file, with all three arguments given, ends the
\* process with exit code 3 and "Error reading body file:" on stderr provided
\* SMTP_PORT is unset or an integer literal, and no connection is attempted;
\* with any other SMTP_PORT the process ends with the uncaught ValueError
\* (exit code 1) before the file is opened.
C1_MissingFileExits3_IntegerPort ==
    (Done /\ AllArgsGiven /\ fs.kind = "missing")
        => IF PortIsInteger
           THEN exit_code = 3 /\ stderr = "Error reading body file:" /\ log = <<>>
           ELSE exit_code = 1 /\ stderr = "Traceback" /\ ~file_opened

C1_Witness ==
    /\ Done /\ AllArgsGiven /\ fs.kind = "missing"
    /\ "SMTP_PORT" \in DOMAIN environ /\ PortIsInteger
    /\ "SMTP_USER" \in DOMAIN environ /\ "SMTP_FROM" \in DOMAIN environ
    /\ exit_code = 3 /\ file_opened

-----------------------------------------------------------------------------
(* C2 *)

\* C2 as stated: once the message is built, any failure during connect,
\* EHLO, TLS upgrade, authentication or send ends the process with exit code
\* 4 and "SMTP send failed:" on stderr.
C2_AnyFailureExits4 ==
    (Done /\ FailedSteps # {})
        => (exit_code = 4 /\ stderr = "SMTP send failed:")

\* C2 amended: once the message is built, any failure that raises an error
\* (connect, TLS handshake, STARTTLS, authentication, send, an EHLO that loses
\* the connection, a closing QUIT answered other than 221) ends the process
\* with exit code 4 and "SMTP send failed:" on stderr, and no session ends
\* with another code than 0 or 4.  An EHLO the server answers with a non-250
\* reply raises nothing: the run goes on and still ends with exit code 4,
\* except that in STARTTLS mode without a user a refused second EHLO followed
\* by an accepted send ends with exit code 0.
C2_RaisedFailureExits4 ==
    (Done /\ log # <<>>)
        => /\ exit_code \in {0, 4}
           /\ exit_code = 4 <=> stderr = "SMTP send failed:"
           /\ RaisingSteps # {} => exit_code = 4
           /\ Steps("quit") # {} /\ log[Len(log)].res = "other" => exit_code = 4
           /\ (FailedSteps # {} /\ exit_code = 0)
                 => /\ FailedSteps = {4}
                    /\ log[4].op = "ehlo" /\ log[3].op = "starttls"
                    /\ smtp_user = ""
                    /\ Len(delivered) = 1

C2_Witness ==
    /\ Done /\ exit_code = 4 /\ stderr = "SMTP send failed:"
    /\ \E i \in Steps("login") : log[i].res = "rejected"
    /\ \E i \in Connects : log[i].op = "SMTP_SSL"

-----------------------------------------------------------------------------
(* C3 *)

\* C3 as stated: with valid arguments, a readable body file and a server that
\* accepts every step, the process exits 0 and the server has exactly one
\* message whose From is the resolved smtp_from, whose To and Subject are the
\* arguments and whose body is the file content; send_message ran once.  A
\* run that exits 0 raises no error on the way.
C3_AcceptedRunDelivers ==
    (AllArgsGiven /\ fs.kind = "text" /\ ServerAcceptsAll)
        => /\ exc = None /\ pc # "except"
           /\ Done
                 => /\ exit_code = 0
                    /\ Len(delivered) = 1
                    /\ delivered[1].From = smtp_from
                    /\ delivered[1].To = argv["to"]
                    /\ delivered[1].Subject = argv["subject"]
                    /\ delivered[1].content = fs.data
                    /\ Cardinality(Steps("send_message")) = 1

-----------------------------------------------------------------------------
(* C4 *)

\* C4: when SMTP_USER is unset or empty no login step is ever performed, in
\* either transport mode and whatever SMTP_PASS is, and a message that gets
\* sent is sent without a login before it.
C4_NoLoginWithoutUser == UserIsEmpty => Steps("login") = {}

C4_Witness ==
    /\ Done /\ UserIsEmpty /\ "SMTP_PASS" \in DOMAIN environ
    /\ starttls /\ Steps("login") = {}
    /\ \E i \in Steps("send_message") : log[i].res = "ok"

-----------------------------------------------------------------------------
(* C5 *)

\* the drawn values of SMTP_STARTTLS that spell 1, true or yes in some case
C5_UpgradeValues == {<<"1">>, <<"t","r","u","e">>, <<"T","R","U","E">>, <<"Y","e","s">>}

C5_UpgradeExpected ==
    "SMTP_STARTTLS" \notin DOMAIN environ
        \/ environ["SMTP_STARTTLS"] \in C5_UpgradeValues

\* C5: the transport mode depends on SMTP_STARTTLS alone: the connection is
\* made with SMTP and upgraded by STARTTLS exactly when the variable is unset
\* or spells 1, true or yes in any letter case; for every other value it is
\* made with SMTP_SSL, is encrypted from the first step on, and neither EHLO
\* nor STARTTLS is issued by main().
C5_ModeFromStarttlsAlone ==
    log # <<>>
        => /\ log[1].op = (IF C5_UpgradeExpected THEN "SMTP" ELSE "SMTP_SSL")
           /\ Cardinality(Connects) = 1
           /\ ~C5_UpgradeExpected
                 => /\ Steps("starttls") = {} /\ Steps("ehlo") = {}
                    /\ \A i \in DOMAIN log : i > 1 => log[i].tls
           /\ (C5_UpgradeExpected /\ Len(log) > 1)
                 => /\ ~log[2].tls
                    /\ (Len(log) > 2 => log[3].op \in {"starttls", "quit"})

C5_Witness ==
    /\ Done /\ "SMTP_STARTTLS" \in DOMAIN environ
    /\ environ["SMTP_STARTTLS"] = <<"F","a","l","s","e">>
    /\ log # <<>> /\ log[1].op = "SMTP_SSL" /\ Len(delivered) = 1

-----------------------------------------------------------------------------
(* C6 *)

\* C6: when any of --to, --subject, --body-file is omitted the process ends
\* with exit code 2 straight from argument parsing: the environment is never
\* read, the body file never opened and no connection attempted.
C6_UsageErrorBeforeAnything ==
    ~AllArgsGiven
        => /\ pc \in {"parse_args", "done"}
           /\ Done => (exit_code = 2 /\ stderr = "usage:")
           /\ ~env_read /\ ~file_opened
           /\ log = <<>> /\ opens = 0 /\ conn = "none"

C6_Witness ==
    /\ Done /\ "body_file" \notin DOMAIN argv /\ "to" \in DOMAIN argv
    /\ exit_code = 2

-----------------------------------------------------------------------------
(* C7 *)

\* C7 as stated: the resolved smtp_from, and the From header of any message
\* built, is never empty, whatever SMTP_FROM and SMTP_USER are.
C7_FromNeverEmpty ==
    Visited("CONFIG_RESOLVED")
        => /\ smtp_from # ""
           /\ Visited("MESSAGE_BUILT") => msg.From # ""

-----------------------------------------------------------------------------
(* C8 *)

\* C8 as stated: exactly one connection is opened and closed per invocation.
C8_ExactlyOneConnection == Done => (opens = 1 /\ conn = "closed")

\* C8 amended: at most one connection is opened per invocation: exactly one
\* in every run whose connect reaches the server, none in a run that ends
\* before the transmission block or whose connect is refused; a connection
\* that was opened is closed whenever the transmission block has been left,
\* on the success path and on every error path.
C8_AtMostOneConnectionClosed ==
    /\ opens <= 1
    /\ Cardinality(Connects) <= 1
    /\ opens = (IF Connects # {} /\ log[1].res # "refused" THEN 1 ELSE 0)
    /\ opens = 0 <=> conn = "none"
    /\ pc \in {"except", "return", "done"} => conn # "open"
    /\ (Done /\ opens = 1) => conn = "closed"

C8_Witness ==
    /\ Done /\ opens = 1 /\ conn = "closed" /\ exit_code = 4
    /\ \E i \in Steps("send_message") : log[i].res = "rejected"
    /\ \E i \in Steps("quit") : log[i].res = "221"

-----------------------------------------------------------------------------
(* C9 *)

\* C9: in STARTTLS mode the session steps come in the order connect, EHLO,
\* STARTTLS, EHLO, optional login, send; login and send_message are only ever
\* performed on the upgraded connection, after a STARTTLS that succeeded; a
\* failed upgrade ends with exit code 4 and neither login nor send.
C9_UpgradeBeforeLoginAndSend ==
    (log # <<>> /\ log[1].op = "SMTP")
        => /\ \/ IsPrefix(OpsOf(log), <<"SMTP", "ehlo", "starttls", "ehlo",
                                        "login", "send_message">>)
              \/ IsPrefix(OpsOf(log), <<"SMTP", "ehlo", "starttls", "ehlo",
                                        "send_message">>)
           /\ \A i \in Steps("login") \cup Steps("send_message") :
                 /\ log[i].tls
                 /\ \E j \in Steps("starttls") : j < i /\ log[j].res = "ok"
           /\ (\E j \in Steps("starttls") : log[j].res # "ok")
                 => /\ Steps("login") = {} /\ Steps("send_message") = {}
                    /\ delivered = <<>>
                    /\ Done => exit_code = 4

C9_Witness ==
    /\ Done /\ log # <<>> /\ log[1].op = "SMTP"
    /\ \E i \in Steps("login") : log[i].res = "ok" /\ log[i].tls
    /\ \E i \in Steps("send_message") : log[i].res = "ok" /\ log[i].tls

-----------------------------------------------------------------------------
(* C10 *)

C10_Linear ==
    /\ Consecutive \subseteq
           Section41 \cup {<<"START", "EXIT">>, <<"ARGS_PARSED", "EXIT">>}
    /\ \A op \in {"SMTP", "SMTP_SSL", "starttls", "login", "send_message", "quit"} :
          Cardinality(Steps(op)) <= 1
    /\ Cardinality(Connects) <= 1
    /\ Cardinality(Steps("ehlo")) <= 2
    /\ Visited("BODY_READ_FAILED")
          => (log = <<>> /\ opens = 0 /\ Done /\ exit_code = 3)
    /\ Visited("SEND_FAILED")
          => (Done /\ conn # "open" /\ ~Visited("SENT") /\ exit_code = 4)
    /\ Visited("EXIT") <=> Done

====
